---- MODULE Spec2Model ----
(***************************************************************************)
(* contextctl: the store synchronizer (store.py) and the part of the CLI   *)
(* that drives it (cli.py: main, _prepare_environment, the subcommands).   *)
(*                                                                         *)
(* Strings are sequences of one-character strings, so that strip(),        *)
(* startswith() and the `in` test are computed and not assumed.            *)
(***************************************************************************)
EXTENDS Integers, Sequences, FiniteSets, TLC

VARIABLES
    disk,       \* [root, cache, local]: store_root, store_root/<slug>, the local path
    layout,     \* TRUE when the resolved local path lies inside store_root
    args,       \* command line and .promptlib.yml of the running invocation
    state,      \* CLIState kept on ctx.obj
    pc,         \* position of the invocation
    ret,        \* where _prepare_environment returns to
    caller,     \* who called sync_central_repo: "prepare" | "init"
    result,     \* outcome of sync_central_repo: "none" | "path" | "StoreSyncError"
    warned,     \* the fallback warning was printed
    err,        \* [exc, at]: the exception a git operation raised, and Len(log) then
    exitCode,   \* -1 while running, else the exit code of the process
    log,        \* operations of this invocation, in order
    entry,      \* disk and reference class when sync_central_repo was entered
    disk0,      \* disk when the invocation started
    runs,       \* invocations started so far
    ref,        \* classification check: the reference under test
    refExists,  \* classification check: Path(ref).exists()
    refLocal,   \* classification check: "unknown", or the answer of _is_local_reference
    call,       \* library call: the function applied, "none" before the call
    given,      \* library call: the arguments of the call
    returned    \* library call: [raised, value] of the call

vars == <<disk, layout, args, state, pc, ret, caller, result, warned, err, exitCode,
          log, entry, disk0, runs, ref, refExists, refLocal, call, given, returned>>

cliVars == <<disk, layout, args, state, pc, ret, caller, result, warned, err, exitCode,
             log, entry, disk0, runs>>

refVars == <<ref, refExists, refLocal>>

libVars == <<call, given, returned>>

----------------------------------------------------------------------------
(* Bounds *)

MaxRuns == 2
MaxRefLen == 3

----------------------------------------------------------------------------
(* String helpers (str.strip, str.startswith, `in`) *)

Whitespace == {" "}

RECURSIVE LStrip(_)
LStrip(s) == IF s # <<>> /\ Head(s) \in Whitespace THEN LStrip(Tail(s)) ELSE s

RECURSIVE RStrip(_)
RStrip(s) ==
    IF s # <<>> /\ s[Len(s)] \in Whitespace THEN RStrip(SubSeq(s, 1, Len(s) - 1)) ELSE s

Strip(s) == RStrip(LStrip(s))

StartsWith(s, p) == Len(s) >= Len(p) /\ SubSeq(s, 1, Len(p)) = p

Contains(s, p) ==
    \E i \in 1..(Len(s) + 1) : i + Len(p) - 1 <= Len(s) /\ SubSeq(s, i, i + Len(p) - 1) = p

StartsWithAny(s, ps) == \E p \in ps : StartsWith(s, p)

----------------------------------------------------------------------------
(* store.py: reference classification *)

Home == <<"/", "h">>

Expanduser(s) ==
    IF s # <<>> /\ Head(s) = "~" /\ (Len(s) = 1 \/ s[2] = "/") THEN Home \o Tail(s) ELSE s

IsAbsolute(s) == s # <<>> /\ Head(s) = "/"

_looks_like_remote(value) ==
    IF Contains(value, <<":", "/", "/">>) THEN TRUE
    ELSE StartsWithAny(value, {<<"g", "i", "t", "@">>, <<"s", "s", "h", ":", "/", "/">>})

LocalPrefixes == {<<".">>, <<".", ".">>}

_is_local_reference(value, exists) ==
    LET cleaned == Strip(value) IN
    IF cleaned = <<>> THEN FALSE
    ELSE IF _looks_like_remote(cleaned) THEN FALSE
    ELSE IF exists \/ IsAbsolute(Expanduser(cleaned)) THEN TRUE
    ELSE StartsWithAny(cleaned, LocalPrefixes)

----------------------------------------------------------------------------
(* The on-disk state.  cache is the directory store_root/<slug>:            *)
(*   "absent"  no such directory                                            *)
(*   "nogit"   a directory without a .git entry                             *)
(*   "badgit"  a directory with a .git entry that Repo() refuses to open    *)
(*   "valid"   a clone: .git exists and Repo() opens it                     *)
(* local is the directory a local reference points to.                      *)

CacheStates == {"absent", "nogit", "badgit", "valid"}
LocalStates == {"absent", "intact"}

Disks ==
    {d \in [root : BOOLEAN, cache : CacheStates, local : LocalStates] :
        d.cache # "absent" => d.root}

Exists(d, path) ==
    IF path = "cache" THEN d.cache # "absent"
    ELSE IF path = "local" THEN d.local # "absent"
    ELSE FALSE

ensure_store_root(d) == [d EXCEPT !.root = TRUE]

clear_store_cache(d, path) ==
    IF ~Exists(d, path) THEN d
    ELSE IF path = "cache" THEN [d EXCEPT !.cache = "absent"]
    ELSE [d EXCEPT !.local = "absent"]

ClearLog(d, path) ==
    IF ~Exists(d, path) THEN <<>>
    ELSE IF path = "cache" THEN <<"rmtree_cache">> ELSE <<"rmtree_local">>

(* a plausible slip: the parent directory is tested instead of the .git entry *)
_has_valid_cache_checks_root(d) == d.root

_has_valid_cache(d) == d.cache \in {"badgit", "valid"}

(* a plausible slip: every existing cache is taken for unopenable *)
RepoOpens_never(d) == FALSE

(* store.py _prepare_repo, line 125: Repo(store_path) opens the directory *)
RepoOpens(d) == d.cache = "valid"

(* a plausible slip: the store root is created before the reference is classified *)
get_store_path_ensures_first(d, central_repo) ==
    LET cleaned == Strip(central_repo)
        ensured == ensure_store_root(d)
    IN IF _is_local_reference(cleaned, Exists(d, "local"))
       THEN [path |-> "local", disk |-> ensured]
       ELSE [path |-> "cache", disk |-> ensured]

(* get_store_path: the path (as a name) and the disk after the call *)
get_store_path(d, central_repo) ==
    LET cleaned == Strip(central_repo) IN
    IF _is_local_reference(cleaned, Exists(d, "local"))
    THEN [path |-> "local", disk |-> d]
    ELSE [path |-> "cache", disk |-> ensure_store_root(d)]

(* Path.relative_to(store_root) succeeds *)
RelativeToRoot(path, inRoot) == path = "cache" \/ (path = "local" /\ inRoot)

----------------------------------------------------------------------------
(* Inputs of an invocation *)

RemoteUrl == <<"h", ":", "/", "/", "r">>
ScpRef == <<"g", "i", "t", "@", "r">>
AbsPath == <<"/", "p">>
HomePath == <<"~", "/", "p">>
DotSlash == <<".", "/", "p">>
DotDotSlash == <<".", ".", "/", "p">>
DotName == <<".", "p">>
PlainName == <<"p">>

CentralRepos ==
    {RemoteUrl, ScpRef, AbsPath, HomePath, DotSlash, DotDotSlash, DotName, PlainName}

_SKIP_PREP_COMMANDS == {"init"}
PrepCommands == {"rules", "list", "search", "run", "tree"}
Commands == {"none", "version", "init"} \cup PrepCommands

Outcomes == {"ok", "GitCommandError", "OSError"}
UPDATE_OPS == <<"fetch", "reset", "clean", "pull">>

NoArgs ==
    [callback |-> FALSE, no_sync |-> FALSE, force_sync |-> FALSE, command |-> "none",
     central_repo |-> <<>>, config_ok |-> FALSE]

NoState ==
    [live |-> FALSE, skip_sync |-> FALSE, force_sync |-> FALSE, prepared |-> FALSE,
     repo_config |-> <<>>, store_path |-> "None"]

NoErr == [exc |-> "none", at |-> 0]

NoEntry == [at |-> 0, disk |-> [root |-> FALSE, cache |-> "absent", local |-> "absent"],
            local |-> FALSE]

InitCli ==
    /\ disk \in Disks
    /\ layout \in BOOLEAN
    /\ (layout /\ disk.local # "absent") => disk.root
    /\ args = NoArgs
    /\ state = NoState
    /\ pc = "idle"
    /\ ret = "none"
    /\ caller = "none"
    /\ result = "none"
    /\ warned = FALSE
    /\ err = NoErr
    /\ exitCode = -1
    /\ log = <<>>
    /\ entry = NoEntry
    /\ disk0 = disk
    /\ runs = 0

InitRefIdle ==
    /\ ref = <<>>
    /\ refExists = FALSE
    /\ refLocal = "unknown"

NoCall == [none |-> TRUE]

InitLibIdle ==
    /\ call = "none"
    /\ given = NoCall
    /\ returned = NoCall

Init == InitCli /\ InitRefIdle /\ InitLibIdle

Exit(code) ==
    /\ exitCode' = code
    /\ pc' = "exited"

(* _abort: print the error and raise typer.Exit(1) *)
_abort == Exit(1)

----------------------------------------------------------------------------
(* The process is started: `contextctl [--no-sync] [--force-sync] <command>` *)
(* through Typer, or a command function called with the callback bypassed.   *)
Invoke ==
    /\ pc = "idle"
    /\ runs < MaxRuns
    /\ \E cb \in BOOLEAN, ns \in BOOLEAN, fs \in BOOLEAN, cmd \in Commands,
          cr \in CentralRepos, ok \in BOOLEAN :
          /\ ~cb => (~ns /\ ~fs /\ cmd # "none")
          /\ args' = [callback |-> cb, no_sync |-> ns, force_sync |-> fs, command |-> cmd,
                      central_repo |-> cr, config_ok |-> ok]
          /\ pc' = IF cb THEN "main" ELSE "command"
    /\ runs' = runs + 1
    /\ disk0' = disk
    /\ UNCHANGED <<disk, layout, state, ret, caller, result, warned, err, exitCode, log, entry>>
    /\ UNCHANGED <<refVars, libVars>>

(* a plausible slip: the conflicting flags are not rejected *)
main_no_flag_check ==
    /\ pc = "main"
    /\ state' = [NoState EXCEPT !.live = TRUE, !.skip_sync = args.no_sync,
                                !.force_sync = args.force_sync]
    /\ IF args.command = "none" \/ args.command \in _SKIP_PREP_COMMANDS
       THEN pc' = "command" /\ ret' = ret
       ELSE pc' = "prepare" /\ ret' = "command"
    /\ UNCHANGED <<disk, layout, args, caller, result, warned, err, exitCode, log, entry,
                   disk0, runs>>
    /\ UNCHANGED <<refVars, libVars>>

(* cli.py main: the global callback *)
main ==
    /\ pc = "main"
    /\ IF args.force_sync /\ args.no_sync
       THEN /\ Exit(2)
            /\ UNCHANGED <<state, ret>>
       ELSE LET st == [NoState EXCEPT !.live = TRUE, !.skip_sync = args.no_sync,
                                      !.force_sync = args.force_sync]
            IN /\ state' = st
               /\ exitCode' = exitCode
               /\ IF args.command = "none" \/ args.command \in _SKIP_PREP_COMMANDS
                     \/ st.prepared
                  THEN pc' = "command" /\ ret' = ret
                  ELSE pc' = "prepare" /\ ret' = "command"
    /\ UNCHANGED <<disk, layout, args, caller, result, warned, err, log, entry, disk0, runs>>
    /\ UNCHANGED <<refVars, libVars>>

(* a plausible slip: the state is never marked prepared *)
_prepare_environment_unmarked ==
    /\ pc = "prepare"
    /\ IF ~args.config_ok
       THEN /\ _abort
            /\ log' = Append(log, "load_repo_config")
            /\ UNCHANGED <<state, caller>>
       ELSE /\ state' = [state EXCEPT !.repo_config = args.central_repo]
            /\ log' = Append(log, "load_repo_config")
            /\ exitCode' = exitCode
            /\ IF state.skip_sync THEN pc' = ret /\ caller' = caller
               ELSE IF state.force_sync THEN pc' = "force_refresh" /\ caller' = "prepare"
               ELSE pc' = "sync" /\ caller' = "prepare"
    /\ UNCHANGED <<disk, layout, args, ret, result, warned, err, entry, disk0, runs>>
    /\ UNCHANGED <<refVars, libVars>>

(* cli.py _prepare_environment, up to the forced refresh *)
_prepare_environment ==
    /\ pc = "prepare"
    /\ IF ~args.config_ok
       THEN /\ _abort
            /\ log' = Append(log, "load_repo_config")
            /\ UNCHANGED <<state, caller>>
       ELSE /\ state' = [state EXCEPT !.repo_config = args.central_repo, !.prepared = TRUE]
            /\ log' = Append(log, "load_repo_config")
            /\ exitCode' = exitCode
            /\ IF state.skip_sync THEN pc' = ret /\ caller' = caller
               ELSE IF state.force_sync THEN pc' = "force_refresh" /\ caller' = "prepare"
               ELSE pc' = "sync" /\ caller' = "prepare"
    /\ UNCHANGED <<disk, layout, args, ret, result, warned, err, entry, disk0, runs>>
    /\ UNCHANGED <<refVars, libVars>>

(* a plausible slip: the relative_to test is inverted *)
_force_refresh_cache_inverted ==
    /\ pc = "force_refresh"
    /\ LET sp == get_store_path(disk, state.repo_config) IN
       IF ~RelativeToRoot(sp.path, layout)
       THEN /\ disk' = clear_store_cache(sp.disk, sp.path)
            /\ log' = log \o ClearLog(sp.disk, sp.path)
       ELSE /\ disk' = sp.disk
            /\ log' = log
    /\ pc' = "sync"
    /\ UNCHANGED <<layout, args, state, ret, caller, result, warned, err, exitCode, entry,
                   disk0, runs>>
    /\ UNCHANGED <<refVars, libVars>>

(* cli.py _force_refresh_cache *)
_force_refresh_cache ==
    /\ pc = "force_refresh"
    /\ LET sp == get_store_path(disk, state.repo_config) IN
       IF RelativeToRoot(sp.path, layout)
       THEN /\ disk' = clear_store_cache(sp.disk, sp.path)
            /\ log' = log \o ClearLog(sp.disk, sp.path)
       ELSE /\ disk' = sp.disk
            /\ log' = log
    /\ pc' = "sync"
    /\ UNCHANGED <<layout, args, state, ret, caller, result, warned, err, exitCode, entry,
                   disk0, runs>>
    /\ UNCHANGED <<refVars, libVars>>

(* the reference handed to sync_central_repo *)
SyncRef == IF caller = "prepare" THEN state.repo_config ELSE args.central_repo

(* store.py sync_central_repo, lines 82-93: classification and the local case *)
sync_central_repo ==
    /\ pc = "sync"
    /\ LET cleaned == Strip(SyncRef)
           sp == get_store_path(disk, cleaned)
           isLocal == _is_local_reference(cleaned, Exists(sp.disk, "local"))
       IN /\ entry' = [at |-> Len(log) + 1, disk |-> disk, local |-> isLocal]
          /\ log' = Append(log, "sync_central_repo")
          /\ IF isLocal
             THEN /\ disk' = sp.disk
                  /\ result' = IF ~Exists(sp.disk, sp.path) THEN "StoreSyncError" ELSE "path"
                  /\ pc' = "sync_return"
             ELSE /\ disk' = ensure_store_root(sp.disk)
                  /\ result' = "none"
                  /\ pc' = "prepare_repo"
    /\ warned' = FALSE
    /\ err' = NoErr
    /\ UNCHANGED <<layout, args, state, ret, caller, exitCode, disk0, runs>>
    /\ UNCHANGED <<refVars, libVars>>

(* a plausible slip: an unopenable cache is cloned over without being cleared *)
_prepare_repo_no_clear ==
    /\ pc = "prepare_repo"
    /\ pc' = IF Exists(disk, "cache") /\ RepoOpens(disk) THEN UPDATE_OPS[1] ELSE "clone"
    /\ UNCHANGED <<disk, log>>
    /\ UNCHANGED <<layout, args, state, ret, caller, result, warned, err, exitCode, entry,
                   disk0, runs>>
    /\ UNCHANGED <<refVars, libVars>>

(* store.py _prepare_repo, lines 123-127: open the cache or clear it *)
_prepare_repo ==
    /\ pc = "prepare_repo"
    /\ IF Exists(disk, "cache")
       THEN IF RepoOpens(disk)
            THEN /\ pc' = UPDATE_OPS[1]
                 /\ UNCHANGED <<disk, log>>
            ELSE /\ disk' = clear_store_cache(disk, "cache")
                 /\ log' = log \o ClearLog(disk, "cache")
                 /\ pc' = "clone"
       ELSE /\ pc' = "clone"
            /\ UNCHANGED <<disk, log>>
    /\ UNCHANGED <<layout, args, state, ret, caller, result, warned, err, exitCode, entry,
                   disk0, runs>>
    /\ UNCHANGED <<refVars, libVars>>

(* a plausible slip: the fresh clone is returned without the update sequence *)
clone_from_then_return ==
    /\ pc = "clone"
    /\ log' = Append(log, "clone")
    /\ \E oc \in Outcomes :
          IF oc = "ok"
          THEN /\ disk' = [disk EXCEPT !.cache = "valid"]
               /\ pc' = "sync_return"
               /\ err' = err
          ELSE /\ disk' = disk
               /\ pc' = "except"
               /\ err' = [exc |-> oc, at |-> Len(log) + 1]
    /\ UNCHANGED <<layout, args, state, ret, caller, result, warned, exitCode, entry,
                   disk0, runs>>
    /\ UNCHANGED <<refVars, libVars>>

(* store.py _prepare_repo, lines 129-137: Repo.clone_from.  A clone that    *)
(* fails leaves no directory behind.                                        *)
clone_from ==
    /\ pc = "clone"
    /\ log' = Append(log, "clone")
    /\ \E oc \in Outcomes :
          IF oc = "ok"
          THEN /\ disk' = [disk EXCEPT !.cache = "valid"]
               /\ pc' = UPDATE_OPS[1]
               /\ err' = err
          ELSE /\ disk' = disk
               /\ pc' = "except"
               /\ err' = [exc |-> oc, at |-> Len(log) + 1]
    /\ UNCHANGED <<layout, args, state, ret, caller, result, warned, exitCode, entry,
                   disk0, runs>>
    /\ UNCHANGED <<refVars, libVars>>

OpIndex(op) == CHOOSE i \in 1..Len(UPDATE_OPS) : UPDATE_OPS[i] = op

(* where _update_repo goes after the operation at pc succeeded *)
NextUpdatePc(op) ==
    IF OpIndex(op) = Len(UPDATE_OPS) THEN "sync_return" ELSE UPDATE_OPS[OpIndex(op) + 1]

(* a plausible slip: a failed operation is noted and the sequence goes on *)
_update_repo_continue ==
    /\ \E i \in 1..Len(UPDATE_OPS) : pc = UPDATE_OPS[i]
    /\ log' = Append(log, pc)
    /\ \E oc \in Outcomes :
          /\ pc' = IF oc # "ok" /\ NextUpdatePc(pc) = "sync_return" THEN "except"
                   ELSE NextUpdatePc(pc)
          /\ result' = IF oc = "ok" /\ NextUpdatePc(pc) = "sync_return" THEN "path" ELSE result
          /\ err' = IF oc = "ok" THEN err ELSE [exc |-> oc, at |-> Len(log) + 1]
    /\ UNCHANGED <<disk, layout, args, state, ret, caller, warned, exitCode, entry,
                   disk0, runs>>
    /\ UNCHANGED <<refVars, libVars>>

(* store.py _update_repo: one git operation of fetch, reset, clean, pull *)
_update_repo ==
    /\ \E i \in 1..Len(UPDATE_OPS) : pc = UPDATE_OPS[i]
    /\ log' = Append(log, pc)
    /\ \E oc \in Outcomes :
          IF oc = "ok"
          THEN /\ pc' = NextUpdatePc(pc)
               /\ result' = IF NextUpdatePc(pc) = "sync_return" THEN "path" ELSE result
               /\ err' = err
          ELSE /\ pc' = "except"
               /\ result' = result
               /\ err' = [exc |-> oc, at |-> Len(log) + 1]
    /\ UNCHANGED <<disk, layout, args, state, ret, caller, warned, exitCode, entry,
                   disk0, runs>>
    /\ UNCHANGED <<refVars, libVars>>

(* a plausible slip: every failure is raised, the cache is never consulted *)
sync_except_no_fallback ==
    /\ pc = "except"
    /\ warned' = warned
    /\ result' = "StoreSyncError"
    /\ pc' = "sync_return"
    /\ UNCHANGED <<disk, layout, args, state, ret, caller, err, exitCode, log, entry,
                   disk0, runs>>
    /\ UNCHANGED <<refVars, libVars>>

(* store.py sync_central_repo, lines 107-114: the fallback on failure *)
sync_except ==
    /\ pc = "except"
    /\ IF _has_valid_cache(disk)
       THEN /\ warned' = TRUE
            /\ result' = "path"
       ELSE /\ warned' = warned
            /\ result' = "StoreSyncError"
    /\ pc' = "sync_return"
    /\ UNCHANGED <<disk, layout, args, state, ret, caller, err, exitCode, log, entry,
                   disk0, runs>>
    /\ UNCHANGED <<refVars, libVars>>

(* the path sync_central_repo returned *)
ReturnedPath == IF entry.local THEN "local" ELSE "cache"

(* cli.py _prepare_environment, lines 714-721: the result of the sync *)
prepare_sync_return ==
    /\ pc = "sync_return"
    /\ caller = "prepare"
    /\ IF result = "StoreSyncError"
       THEN /\ _abort
            /\ state' = state
       ELSE /\ state' = [state EXCEPT !.store_path = ReturnedPath]
            /\ pc' = ret
            /\ exitCode' = exitCode
    /\ UNCHANGED <<disk, layout, args, ret, caller, result, warned, err, log, entry, disk0, runs>>
    /\ UNCHANGED <<refVars, libVars>>

(* cli.py _ensure_state: the state of the callback, or a fallback that never syncs *)
_ensure_state(st) ==
    IF st.live THEN st ELSE [NoState EXCEPT !.live = TRUE, !.skip_sync = TRUE]

(* the entry of a subcommand: version, the commands that need the store, init *)
command ==
    /\ pc = "command"
    /\ state' = _ensure_state(state)
    /\ IF args.command \in {"none", "version"}
       THEN /\ Exit(0)
            /\ ret' = ret
       ELSE IF args.command = "init"
       THEN /\ pc' = "init"
            /\ UNCHANGED <<exitCode, ret>>
       ELSE IF ~_ensure_state(state).prepared
       THEN /\ pc' = "prepare"
            /\ ret' = "body"
            /\ exitCode' = exitCode
       ELSE /\ pc' = "body"
            /\ UNCHANGED <<exitCode, ret>>
    /\ UNCHANGED <<disk, layout, args, caller, result, warned, err, log, entry, disk0, runs>>
    /\ UNCHANGED <<refVars, libVars>>

(* cli.py _require_store_path and the rest of rules/list/search/run/tree,   *)
(* which read the store and print                                           *)
command_body ==
    /\ pc = "body"
    /\ IF state.repo_config = <<>>
       THEN /\ _abort
            /\ UNCHANGED <<disk, state>>
       ELSE IF state.store_path # "None" /\ Exists(disk, state.store_path)
       THEN /\ \E contentOk \in BOOLEAN : Exit(IF contentOk THEN 0 ELSE 1)
            /\ UNCHANGED <<disk, state>>
       ELSE LET sp == get_store_path(disk, state.repo_config) IN
            /\ disk' = sp.disk
            /\ IF ~Exists(sp.disk, sp.path)
               THEN /\ _abort
                    /\ state' = state
               ELSE /\ state' = [state EXCEPT !.store_path = sp.path]
                    /\ \E contentOk \in BOOLEAN : Exit(IF contentOk THEN 0 ELSE 1)
    /\ UNCHANGED <<layout, args, ret, caller, result, warned, err, log, entry, disk0, runs>>
    /\ UNCHANGED <<refVars, libVars>>

(* cli.py init, lines 168-197: the wizard up to the store preview *)
init ==
    /\ pc = "init"
    /\ \E repoRootFound \in BOOLEAN, proceed \in BOOLEAN :
          IF ~repoRootFound
          THEN /\ _abort
               /\ caller' = caller
          ELSE IF ~proceed
          THEN /\ Exit(0)
               /\ caller' = caller
          ELSE /\ exitCode' = exitCode
               /\ IF state.skip_sync THEN pc' = "init_finish" /\ caller' = caller
                  ELSE IF state.force_sync THEN pc' = "init_force_refresh" /\ caller' = "init"
                  ELSE pc' = "sync" /\ caller' = "init"
    /\ UNCHANGED <<disk, layout, args, state, ret, result, warned, err, log, entry, disk0, runs>>
    /\ UNCHANGED <<refVars, libVars>>

(* cli.py init, lines 190-197: the forced refresh of the wizard *)
init_force_refresh ==
    /\ pc = "init_force_refresh"
    /\ LET sp == get_store_path(disk, args.central_repo) IN
       IF RelativeToRoot(sp.path, layout)
       THEN /\ disk' = clear_store_cache(sp.disk, sp.path)
            /\ log' = log \o ClearLog(sp.disk, sp.path)
       ELSE /\ disk' = sp.disk
            /\ log' = log
    /\ pc' = "sync"
    /\ UNCHANGED <<layout, args, state, ret, caller, result, warned, err, exitCode, entry,
                   disk0, runs>>
    /\ UNCHANGED <<refVars, libVars>>

(* cli.py _load_store_preview: a failed sync is a warning, the wizard goes on *)
_load_store_preview ==
    /\ pc = "sync_return"
    /\ caller = "init"
    /\ pc' = "init_finish"
    /\ UNCHANGED <<disk, layout, args, state, ret, caller, result, warned, err, exitCode, log,
                   entry, disk0, runs>>
    /\ UNCHANGED <<refVars, libVars>>

(* cli.py init, lines 204-233: set selection and the write of .promptlib.yml *)
init_finish ==
    /\ pc = "init_finish"
    /\ Exit(0)
    /\ UNCHANGED <<disk, layout, args, state, ret, caller, result, warned, err, log, entry,
                   disk0, runs>>
    /\ UNCHANGED <<refVars, libVars>>

(* the process has ended; the next invocation starts with a fresh CLIState  *)
(* and finds the disk as this one left it                                   *)
NextInvocation ==
    /\ pc = "exited"
    /\ runs < MaxRuns
    /\ pc' = "idle"
    /\ args' = NoArgs
    /\ state' = NoState
    /\ ret' = "none"
    /\ caller' = "none"
    /\ result' = "none"
    /\ warned' = FALSE
    /\ err' = NoErr
    /\ exitCode' = -1
    /\ log' = <<>>
    /\ entry' = NoEntry
    /\ disk0' = disk
    /\ UNCHANGED <<disk, layout, runs>>
    /\ UNCHANGED <<refVars, libVars>>

Next ==
    \/ Invoke
    \/ main
    \/ _prepare_environment
    \/ _force_refresh_cache
    \/ sync_central_repo
    \/ _prepare_repo
    \/ clone_from
    \/ _update_repo
    \/ sync_except
    \/ prepare_sync_return
    \/ command
    \/ command_body
    \/ init
    \/ init_force_refresh
    \/ _load_store_preview
    \/ init_finish
    \/ NextInvocation

Spec == Init /\ [][Next]_vars

TypeOK ==
    /\ disk \in Disks
    /\ pc \in {"idle", "main", "prepare", "force_refresh", "sync", "prepare_repo", "clone",
               "fetch", "reset", "clean", "pull", "except", "sync_return", "command", "body",
               "init", "init_force_refresh", "init_finish", "exited"}
    /\ result \in {"none", "path", "StoreSyncError"}
    /\ exitCode \in {-1, 0, 1, 2}
    /\ runs \in 0..MaxRuns

----------------------------------------------------------------------------
(* Reference classification on its own: every short reference over the      *)
(* characters the classification looks at, and the references of the CLI    *)
(* model with surrounding blanks.                                           *)

RefAlphabet == {" ", ".", "/", ":", "p"}

SeqsUpTo(S, n) == UNION {[1..k -> S] : k \in 0..n}

Padded(r) == {r, <<" ">> \o r, r \o <<" ">>, <<" ">> \o r \o <<" ">>}

SshUrl == <<"s", "s", "h", ":", "/", "/", "r">>

Refs == SeqsUpTo(RefAlphabet, MaxRefLen) \cup UNION {Padded(r) : r \in CentralRepos \cup {SshUrl}}

(* "", ".", "..", "/", "./" ... name a directory that always exists *)
AlwaysExists(s) ==
    /\ s # <<>>
    /\ \A i \in 1..Len(s) : s[i] \in {".", "/"}
    /\ ~Contains(s, <<".", ".", ".">>)

InitCliOff ==
    /\ disk = [root |-> FALSE, cache |-> "absent", local |-> "absent"]
    /\ layout = FALSE
    /\ args = NoArgs
    /\ state = NoState
    /\ pc = "off"
    /\ ret = "none"
    /\ caller = "none"
    /\ result = "none"
    /\ warned = FALSE
    /\ err = NoErr
    /\ exitCode = -1
    /\ log = <<>>
    /\ entry = NoEntry
    /\ disk0 = disk
    /\ runs = 0

InitClassify ==
    /\ InitCliOff
    /\ ref \in Refs
    /\ refExists \in BOOLEAN
    /\ AlwaysExists(Strip(ref)) => refExists
    /\ refLocal = "unknown"
    /\ InitLibIdle

Classify ==
    /\ refLocal = "unknown"
    /\ refLocal' = IF _is_local_reference(ref, refExists) THEN "local" ELSE "remote"
    /\ UNCHANGED <<ref, refExists>>
    /\ UNCHANGED cliVars
    /\ UNCHANGED libVars

NextClassify == Classify

SpecClassify == InitClassify /\ [][NextClassify]_vars

----------------------------------------------------------------------------
(* Helpers of the properties *)

UpdateOps == {UPDATE_OPS[i] : i \in 1..Len(UPDATE_OPS)}

(* what the running sync pass has done since sync_central_repo was entered *)
PassLog == IF entry.at = 0 THEN <<>> ELSE SubSeq(log, entry.at + 1, Len(log))

IsPrefix(s, t) == Len(s) <= Len(t) /\ SubSeq(t, 1, Len(s)) = s

Count(s, e) == Cardinality({i \in 1..Len(s) : s[i] = e})

RemotePass == entry.at > 0 /\ ~entry.local

(* the git operation that raised *)
FailedOp == IF err.exc = "none" THEN "none" ELSE log[err.at]

----------------------------------------------------------------------------
(* C1: a sync pass on a remote reference that found a valid cache and had   *)
(* one of fetch, reset, clean, pull fail returns the cache path with a      *)
(* warning and raises no StoreSyncError; the cache is still there.          *)
C1_FallbackOnUpdateFailure ==
    (pc = "sync_return" /\ RemotePass /\ entry.disk.cache = "valid" /\ err.exc # "none")
        => (result = "path" /\ warned /\ disk.cache = "valid" /\ FailedOp \in UpdateOps)

C1_Witness ==
    /\ pc = "sync_return" /\ RemotePass /\ entry.disk.cache = "valid"
    /\ err.exc = "GitCommandError" /\ FailedOp = "clean"
    /\ result = "path" /\ warned

C3_InvalidCacheIsRecloned ==
    (RemotePass /\ entry.disk.cache \in {"nogit", "badgit"})
        => /\ IsPrefix(PassLog, <<"rmtree_cache", "clone">> \o UPDATE_OPS)
           /\ pc # "prepare_repo" => Len(PassLog) >= 1
           /\ pc = "clone" => (PassLog = <<"rmtree_cache">> /\ disk.cache = "absent")
           /\ pc \notin {"prepare_repo", "clone"} => Len(PassLog) >= 2
           /\ pc \in UpdateOps => disk.cache = "valid"

C3_Witness ==
    /\ pc = "sync_return" /\ RemotePass /\ entry.disk.cache = "badgit"
    /\ PassLog = <<"rmtree_cache", "clone">> \o UPDATE_OPS
    /\ result = "path" /\ ~warned

(* C4: for a reference classified as local, sync_central_repo returns the   *)
(* path when it exists and raises StoreSyncError when it does not, runs no  *)
(* git operation and no deletion, and leaves the disk (store root included) *)
(* as it found it.                                                          *)
C4_LocalIsExistenceCheckOnly ==
    (pc = "sync_return" /\ entry.at > 0 /\ entry.local)
        => /\ result = (IF entry.disk.local = "intact" THEN "path" ELSE "StoreSyncError")
           /\ disk = entry.disk
           /\ PassLog = <<>>
           /\ err.exc = "none" /\ ~warned

C4_Witness ==
    /\ pc = "sync_return" /\ entry.at > 0 /\ entry.local
    /\ ~disk.root /\ disk.local = "intact" /\ result = "path"

(* the reference as the forced refresh sees it: classified on the disk the  *)
(* invocation started with                                                  *)
LocalAtStart == _is_local_reference(Strip(args.central_repo), Exists(disk0, "local"))

Forced == state.force_sync /\ args.central_repo # <<>>

(* C5 (as claimed): after the forced-refresh step of an invocation whose    *)
(* reference is local, the directory the reference points to is as it was,  *)
(* wherever it lies.                                                        *)
C5_ForcedRefreshKeepsLocal ==
    (Forced /\ LocalAtStart /\ pc = "sync") => disk.local = disk0.local

ClaimedLocal(value, exists) ==
    LET cleaned == Strip(value) IN
    /\ cleaned # <<>>
    /\ ~_looks_like_remote(cleaned)
    /\ \/ IsAbsolute(Expanduser(cleaned))
       \/ exists
       \/ StartsWithAny(cleaned, {<<".", "/">>, <<".", ".", "/">>})

(* C7 (as claimed): a reference is classified local exactly when it is      *)
(* non-blank, does not look remote, and is absolute, existing, or begins    *)
(* with "./" or "../".                                                      *)
C7_ClassificationAsClaimed ==
    refLocal # "unknown" => ((refLocal = "local") <=> ClaimedLocal(ref, refExists))

IsGitOp(e) == e # "rmtree_cache"

(* C8: the git operations of a pass are a prefix of fetch, reset, clean,    *)
(* pull, preceded by the clone when there was no valid cache; none runs     *)
(* twice, and nothing is attempted after the first failure, which ends in   *)
(* the fallback or in StoreSyncError.                                       *)
C8_OnePassNoRetry ==
    RemotePass
        => /\ \/ IsPrefix(SelectSeq(PassLog, IsGitOp), UPDATE_OPS)
              \/ IsPrefix(SelectSeq(PassLog, IsGitOp), <<"clone">> \o UPDATE_OPS)
           /\ entry.disk.cache = "valid" => IsPrefix(PassLog, UPDATE_OPS)
           /\ err.exc # "none" => Len(log) = err.at
           /\ (pc = "sync_return" /\ err.exc = "none")
                 => /\ result = "path" /\ ~warned
                    /\ SubSeq(PassLog, Len(PassLog) - 3, Len(PassLog)) = UPDATE_OPS
           /\ (pc = "sync_return" /\ err.exc # "none")
                 => (result = "path" /\ warned) \/ (result = "StoreSyncError" /\ ~warned)

C8_Witness ==
    /\ pc = "sync_return" /\ RemotePass /\ entry.disk.cache = "valid"
    /\ PassLog = <<"fetch", "reset">> /\ err.exc # "none" /\ warned

SyncCalls == Count(log, "sync_central_repo")

(* C9: an invocation calls sync_central_repo at most once and loads the     *)
(* configuration at most once; preparation is only entered while the state  *)
(* is unprepared and nothing has synced, from the callback or a subcommand. *)
C9_AtMostOneSync ==
    /\ SyncCalls <= 1
    /\ Count(log, "load_repo_config") <= 1
    /\ pc \in {"prepare", "force_refresh", "init", "init_force_refresh", "sync"}
          => SyncCalls = 0
    /\ pc = "prepare" => ~state.prepared
    /\ (state.prepared /\ pc \in {"command", "body"}) => log[1] = "load_repo_config"

C9_Witness ==
    /\ pc = "body" /\ args.callback /\ state.prepared /\ SyncCalls = 1

(* C10: an invocation with --no-sync never calls sync_central_repo and      *)
(* removes nothing; with --force-sync as well it is rejected with a usage   *)
(* error before the configuration is loaded and with the disk untouched.    *)
C10_NoSyncNeverSyncs ==
    args.no_sync
        => /\ SyncCalls = 0
           /\ Count(log, "rmtree_cache") = 0 /\ Count(log, "rmtree_local") = 0
           /\ disk.cache = disk0.cache /\ disk.local = disk0.local
           /\ args.force_sync => /\ log = <<>>
                                 /\ disk = disk0
                                 /\ ~state.live
                                 /\ pc \in {"main", "exited"}
                                 /\ pc = "exited" => exitCode = 2

C10_Witness ==
    /\ args.no_sync /\ ~args.force_sync /\ args.command = "rules"
    /\ pc = "exited" /\ exitCode = 0 /\ disk0.cache = "valid"

----------------------------------------------------------------------------
(* Prompt filters (content.py).  A document given to the filters carries the *)
(* three facet lists of its metadata; the lists are as models._normalize_   *)
(* list leaves them: entries trimmed, none blank, no two equal under        *)
(* casefold.  A query is None, one string, or a list of strings.            *)

MaxDocs == 2
MaxQuery == 2

Casefold1_identity(c) == c

Casefold1(c) ==
    CASE c = "A" -> "a"
      [] c = "B" -> "b"
      [] OTHER -> c

Casefold(s) == [i \in 1..Len(s) |-> Casefold1(s[i])]

Range(s) == {s[i] : i \in 1..Len(s)}

_metadata_value_set_keeps_case(values) ==
    {Strip(values[i]) : i \in {j \in 1..Len(values) : Strip(values[j]) # <<>>}}

_metadata_value_set(values) ==
    {Casefold(Strip(values[i])) : i \in {j \in 1..Len(values) : Strip(values[j]) # <<>>}}

None == [kind |-> "None"]
Str(s) == [kind |-> "str", value |-> s]
List(l) == [kind |-> "list", values |-> l]

_normalize_query_values_keeps_blank(values) ==
    IF values.kind = "None" THEN {}
    ELSE LET candidates == IF values.kind = "str" THEN <<values.value>> ELSE values.values
         IN {Casefold(Strip(candidates[i])) : i \in 1..Len(candidates)}

_normalize_query_values(values) ==
    IF values.kind = "None" THEN {}
    ELSE LET candidates == IF values.kind = "str" THEN <<values.value>> ELSE values.values
             normalized == SelectSeq([i \in 1..Len(candidates) |-> Strip(candidates[i])],
                                     LAMBDA value : value # <<>>)
         IN {Casefold(normalized[i]) : i \in 1..Len(normalized)}

filter_by_repo(documents, repo_slug) ==
    LET items == documents
        normalized == Casefold(Strip(repo_slug.value))
        keep(document) ==
            LET repos == _metadata_value_set(document.repos)
            IN repos = {} \/ normalized \in repos
    IN IF repo_slug.kind = "None" THEN items
       ELSE IF normalized = <<>> THEN items
       ELSE SelectSeq(items, keep)

filter_by_tags_empty_is_wildcard(documents, tags, match_all) ==
    LET items == documents
        query_tags == _normalize_query_values(tags)
        keep(document) ==
            LET document_tags == _metadata_value_set(document.tags)
            IN \/ document_tags = {}
               \/ match_all /\ query_tags \subseteq document_tags
               \/ ~match_all /\ document_tags \cap query_tags # {}
    IN IF query_tags = {} THEN items ELSE SelectSeq(items, keep)

filter_by_tags(documents, tags, match_all) ==
    LET items == documents
        query_tags == _normalize_query_values(tags)
        keep(document) ==
            LET document_tags == _metadata_value_set(document.tags)
            IN /\ document_tags # {}
               /\ \/ match_all /\ query_tags \subseteq document_tags
                  \/ ~match_all /\ document_tags \cap query_tags # {}
    IN IF query_tags = {} THEN items ELSE SelectSeq(items, keep)

RECURSIVE Reversed(_)
Reversed(s) == IF s = <<>> THEN <<>> ELSE Append(Reversed(Tail(s)), Head(s))

filter_by_agent_prepends(documents, agents) ==
    LET items == documents
        query_agents == _normalize_query_values(agents)
        keep(document) ==
            LET document_agents == _metadata_value_set(document.agents)
            IN document_agents = {} \/ document_agents \cap query_agents # {}
    IN IF query_agents = {} THEN items ELSE Reversed(SelectSeq(items, keep))

filter_by_agent(documents, agents) ==
    LET items == documents
        query_agents == _normalize_query_values(agents)
        keep(document) ==
            LET document_agents == _metadata_value_set(document.agents)
            IN document_agents = {} \/ document_agents \cap query_agents # {}
    IN IF query_agents = {} THEN items ELSE SelectSeq(items, keep)

(* Inputs of the filters *)

RepoLists == {<<>>, << <<"A">> >>, << <<"b">> >>}

TagLists == {<<>>, << <<"A">>, <<"b">> >>}

AgentLists == {<<>>, << <<"A">>, <<"b">> >>}

FilterDocs == [repos : RepoLists, tags : TagLists, agents : AgentLists]

QueryValues == {<<" ">>, <<"a", " ">>, <<"b">>, <<"c">>}

QueryStrings == QueryValues \cup {<<>>}

QueryLists == SeqsUpTo(QueryValues, MaxQuery)

InitFilter ==
    /\ InitCliOff
    /\ InitRefIdle
    /\ call \in {"filter_by_repo", "filter_by_tags", "filter_by_agent"}
    /\ \E documents \in SeqsUpTo(FilterDocs, MaxDocs) :
         \/ /\ call = "filter_by_repo"
            /\ \E repo_slug \in {None} \cup {Str(q) : q \in QueryStrings} :
                 given = [documents |-> documents, query |-> repo_slug, match_all |-> FALSE]
         \/ /\ call = "filter_by_tags"
            /\ \E tags \in {None} \cup {List(l) : l \in QueryLists}, match_all \in BOOLEAN :
                 given = [documents |-> documents, query |-> tags, match_all |-> match_all]
         \/ /\ call = "filter_by_agent"
            /\ \E agents \in {None} \cup {Str(q) : q \in QueryStrings}
                                    \cup {List(l) : l \in QueryLists} :
                 given = [documents |-> documents, query |-> agents, match_all |-> FALSE]
    /\ returned = NoCall

Return(value) ==
    /\ returned = NoCall
    /\ returned' = [raised |-> "none", value |-> value]
    /\ UNCHANGED <<call, given>>
    /\ UNCHANGED cliVars
    /\ UNCHANGED refVars

FilterByRepo ==
    /\ call = "filter_by_repo"
    /\ Return(filter_by_repo(given.documents, given.query))

FilterByTags ==
    /\ call = "filter_by_tags"
    /\ Return(filter_by_tags(given.documents, given.query, given.match_all))

FilterByAgent ==
    /\ call = "filter_by_agent"
    /\ Return(filter_by_agent(given.documents, given.query))

NextFilter ==
    \/ FilterByRepo
    \/ FilterByTags
    \/ FilterByAgent

SpecFilter == InitFilter /\ [][NextFilter]_vars

----------------------------------------------------------------------------
(* Properties of the filters *)

Returned == returned # NoCall

Retained(document) == document \in Range(returned.value)

SameLetter(c, d) == c = d \/ {c, d} \in {{"a", "A"}, {"b", "B"}}

EqualIgnoringCase(a, b) == Len(a) = Len(b) /\ \A i \in 1..Len(a) : SameLetter(a[i], b[i])

(* the non-blank values of a query, trimmed *)
QueryEntries(q) ==
    LET all == CASE q.kind = "None" -> {}
                 [] q.kind = "str" -> {q.value}
                 [] OTHER -> Range(q.values)
    IN {Strip(v) : v \in {w \in all : Strip(w) # <<>>}}

EmptyQuery(q) == QueryEntries(q) = {}

SharesEntry(list, q) ==
    \E i \in 1..Len(list) : \E v \in QueryEntries(q) : EqualIgnoringCase(list[i], v)

HasAllEntries(list, q) ==
    \A v \in QueryEntries(q) : \E i \in 1..Len(list) : EqualIgnoringCase(list[i], v)

(* C11: with a non-blank repository id, filter_by_repo retains a document    *)
(* exactly when its repos list is empty or holds an entry equal to the       *)
(* (trimmed) id ignoring case; with a non-empty agent query, filter_by_agent *)
(* retains a document exactly when its agents list is empty or shares an     *)
(* entry with the query ignoring case.                                       *)
C11_RepoAndAgentRetention ==
    /\ (Returned /\ call = "filter_by_repo" /\ ~EmptyQuery(given.query)) =>
         \A i \in 1..Len(given.documents) :
            Retained(given.documents[i]) <=>
               \/ given.documents[i].repos = <<>>
               \/ SharesEntry(given.documents[i].repos, given.query)
    /\ (Returned /\ call = "filter_by_agent" /\ ~EmptyQuery(given.query)) =>
         \A i \in 1..Len(given.documents) :
            Retained(given.documents[i]) <=>
               \/ given.documents[i].agents = <<>>
               \/ SharesEntry(given.documents[i].agents, given.query)

(* a padded, differently-cased id keeps the matching document and drops the  *)
(* other                                                                     *)
C11_Witness ==
    /\ Returned
    /\ call = "filter_by_repo"
    /\ given.query = Str(<<"a", " ">>)
    /\ Len(given.documents) = 2
    /\ given.documents[1].repos = << <<"A">> >>
    /\ given.documents[2].repos = << <<"b">> >>
    /\ returned.value = <<given.documents[1]>>

(* C12: a filter given an empty query (no repository id or a blank one; no   *)
(* tag list, an empty one or one of blank entries; the same for agents)      *)
(* returns its input unchanged and in order, whatever the facet lists hold.  *)
C12_EmptyQueryIsIdentity ==
    (Returned /\ EmptyQuery(given.query)) => returned.value = given.documents

C12_Witness ==
    /\ Returned
    /\ call = "filter_by_tags"
    /\ given.query = List(<< <<" ">>, <<" ">> >>)
    /\ Len(given.documents) = 2
    /\ given.documents[1].tags = <<>>
    /\ given.documents[2].tags # <<>>
    /\ returned.value = given.documents

(* C13: with a non-empty tag query, filter_by_tags retains no document whose *)
(* tags list is empty, in either match mode.                                 *)
C13_EmptyTagsNeverMatch ==
    (Returned /\ call = "filter_by_tags" /\ ~EmptyQuery(given.query)) =>
       \A i \in 1..Len(returned.value) : returned.value[i].tags # <<>>

C13_Witness ==
    /\ Returned
    /\ call = "filter_by_tags"
    /\ given.match_all
    /\ given.query = List(<< <<"b">> >>)
    /\ Len(given.documents) = 2
    /\ given.documents[1].tags = <<>>
    /\ given.documents[2].tags = << <<"A">>, <<"b">> >>
    /\ returned.value = <<given.documents[2]>>

(* C14: with a non-empty tag query, a document with a non-empty tags list is *)
(* retained under match_all = FALSE exactly when its tags share an entry     *)
(* with the query, and under match_all = TRUE exactly when its tags hold     *)
(* every entry of the query, both ignoring case.                             *)
C14_AnyAndAllModes ==
    (Returned /\ call = "filter_by_tags" /\ ~EmptyQuery(given.query)) =>
       \A i \in 1..Len(given.documents) :
          given.documents[i].tags # <<>> =>
             (Retained(given.documents[i]) <=>
                IF given.match_all
                THEN HasAllEntries(given.documents[i].tags, given.query)
                ELSE SharesEntry(given.documents[i].tags, given.query))

(* the same query keeps a document in "any" mode that "all" mode drops *)
C14_Witness ==
    /\ Returned
    /\ call = "filter_by_tags"
    /\ given.match_all
    /\ given.query = List(<< <<"a", " ">>, <<"c">> >>)
    /\ Len(given.documents) = 1
    /\ given.documents[1].tags = << <<"A">>, <<"b">> >>
    /\ returned.value = <<>>
    /\ filter_by_tags(given.documents, given.query, FALSE) = given.documents

IsSubsequence(r, s) ==
    \E f \in [1..Len(r) -> 1..Len(s)] :
       /\ \A i \in 1..Len(r) : r[i] = s[f[i]]
       /\ \A i, j \in 1..Len(r) : i < j => f[i] < f[j]

(* C15: what a filter returns is a subsequence of what it was given: the     *)
(* retained documents keep their order, none is added, repeated or altered.  *)
C15_ResultIsSubsequence ==
    Returned => IsSubsequence(returned.value, given.documents)

C15_Witness ==
    /\ Returned
    /\ call = "filter_by_agent"
    /\ ~EmptyQuery(given.query)
    /\ Len(returned.value) = 2
    /\ returned.value[1] # returned.value[2]
    /\ returned.value = given.documents

----------------------------------------------------------------------------
(* Prompt search (content.py: search_prompts; cli.py: _execute_search).     *)
(* A score is a fraction <<numerator, denominator>>, so that 2.0 + 0.1 * n, *)
(* the ratio 2 * M / T of difflib and the threshold 0.72 are compared       *)
(* exactly.                                                                 *)

MaxSearchDocs == 2
MaxQueryLen == 3

ScoreLess(p, q) == p[1] * q[2] < q[1] * p[2]

ScoreEq(p, q) == p[1] * q[2] = q[1] * p[2]

ScoreMax(p, q) == IF ScoreLess(p, q) THEN q ELSE p

fuzzy_threshold == <<72, 100>>

(* str.split(): the maximal runs of non-whitespace characters *)
RECURSIVE Split(_)
Split(s) ==
    LET t == LStrip(s)
    IN IF t = <<>> THEN <<>>
       ELSE LET stops == {i \in 1..Len(t) : t[i] \in Whitespace}
                n == IF stops = {} THEN Len(t) + 1
                     ELSE CHOOSE i \in stops : \A j \in stops : i <= j
            IN <<SubSeq(t, 1, n - 1)>> \o Split(SubSeq(t, n, Len(t)))

(* " ".join(parts) *)
RECURSIVE Join(_)
Join(parts) ==
    IF parts = <<>> THEN <<>>
    ELSE IF Len(parts) = 1 THEN parts[1]
    ELSE parts[1] \o <<" ">> \o Join(Tail(parts))

_tokenize_query_whole(query) == IF query = <<>> THEN <<>> ELSE <<Casefold(query)>>

_tokenize_query(query) ==
    LET parts == SelectSeq(Split(query), LAMBDA token : Strip(token) # <<>>)
    IN [i \in 1..Len(parts) |-> Casefold(parts[i])]

_build_prompt_haystack(document) ==
    Casefold(Join(<<document.prompt_id, document.title, Join(document.tags),
                    Join(document.repos), Join(document.agents), document.body>>))

(* a plausible slip: token scores on the 0..1 scale of the fuzzy ratio *)
_token_match_score_unit_scale(tokens, haystack) ==
    IF tokens = <<>> THEN <<0, 10>>
    ELSE IF \A i \in 1..Len(tokens) : Contains(haystack, tokens[i])
         THEN <<5, 10>>
    ELSE IF \E i \in 1..Len(tokens) : Contains(haystack, tokens[i])
         THEN <<2, 10>>
    ELSE <<0, 10>>

_token_match_score(tokens, haystack) ==
    IF tokens = <<>> THEN <<0, 10>>
    ELSE IF \A i \in 1..Len(tokens) : Contains(haystack, tokens[i])
         THEN <<20 + Len(tokens), 10>>
    ELSE IF \E i \in 1..Len(tokens) : Contains(haystack, tokens[i])
         THEN <<10, 10>>
    ELSE <<0, 10>>

(* difflib.SequenceMatcher: the longest common block (leftmost in a, then   *)
(* leftmost in b), then the same to its left and to its right               *)
RECURSIVE MatchedChars(_, _)
MatchedChars(a, b) ==
    LET blocks == {x \in (1..Len(a)) \X (1..Len(b)) \X (1..Len(a)) :
                      /\ x[1] + x[3] - 1 <= Len(a)
                      /\ x[2] + x[3] - 1 <= Len(b)
                      /\ SubSeq(a, x[1], x[1] + x[3] - 1) = SubSeq(b, x[2], x[2] + x[3] - 1)}
    IN IF blocks = {} THEN 0
       ELSE LET m == CHOOSE x \in blocks : \A y \in blocks :
                        \/ x[3] > y[3]
                        \/ x[3] = y[3] /\ x[1] < y[1]
                        \/ x[3] = y[3] /\ x[1] = y[1] /\ x[2] <= y[2]
            IN m[3] + MatchedChars(SubSeq(a, 1, m[1] - 1), SubSeq(b, 1, m[2] - 1))
                    + MatchedChars(SubSeq(a, m[1] + m[3], Len(a)),
                                   SubSeq(b, m[2] + m[3], Len(b)))

Ratio(a, b) ==
    IF Len(a) + Len(b) = 0 THEN <<1, 1>> ELSE <<2 * MatchedChars(a, b), Len(a) + Len(b)>>

_fuzzy_match_score(candidates, prompt_id) ==
    LET identifier == Casefold(prompt_id)
        scores == {Ratio(candidate, identifier) : candidate \in candidates \ {<<>>}}
    IN IF scores = {} THEN <<0, 1>>
       ELSE CHOOSE x \in scores : \A y \in scores : ~ScoreLess(x, y)

Skipped_either(token_score, fuzzy_score) ==
    ScoreEq(token_score, <<0, 10>>) \/ ScoreLess(fuzzy_score, fuzzy_threshold)

Skipped(token_score, fuzzy_score) ==
    ScoreEq(token_score, <<0, 10>>) /\ ScoreLess(fuzzy_score, fuzzy_threshold)

(* code points of the characters an id is made of *)
Ord(c) ==
    CASE c = "-" -> 45
      [] c = "." -> 46
      [] c = "D" -> 68
      [] c = "M" -> 77
      [] c = "a" -> 97
      [] c = "b" -> 98
      [] c = "c" -> 99
      [] c = "d" -> 100
      [] c = "m" -> 109
      [] c = "s" -> 115
      [] c = "t" -> 116
      [] c = "x" -> 120

RECURSIVE StrLess(_, _)
StrLess(a, b) ==
    IF b = <<>> THEN FALSE
    ELSE IF a = <<>> THEN TRUE
    ELSE IF Head(a) = Head(b) THEN StrLess(Tail(a), Tail(b))
    ELSE Ord(Head(a)) < Ord(Head(b))

SortKeyLess_score_only(x, y) == ScoreLess(y.score, x.score)

SortKeyLess(x, y) ==
    \/ ScoreLess(y.score, x.score)
    \/ ScoreEq(x.score, y.score) /\ StrLess(x.document.prompt_id, y.document.prompt_id)

(* list.sort: stable *)
RECURSIVE Insert(_, _)
Insert(sorted, x) ==
    IF sorted = <<>> THEN <<x>>
    ELSE IF SortKeyLess(x, Head(sorted)) THEN <<x>> \o sorted
    ELSE <<Head(sorted)>> \o Insert(Tail(sorted), x)

RECURSIVE Sort(_)
Sort(results) ==
    IF results = <<>> THEN <<>>
    ELSE Insert(Sort(SubSeq(results, 1, Len(results) - 1)), results[Len(results)])

search_prompts(documents, query) ==
    LET tokens == _tokenize_query(query)
        normalized_query == Strip(query)
        fuzzy_candidates ==
            Range(tokens) \cup (IF normalized_query # <<>> THEN {Casefold(normalized_query)} ELSE {})
        scored == [i \in 1..Len(documents) |->
                     LET token_score ==
                             _token_match_score(tokens, _build_prompt_haystack(documents[i]))
                         fuzzy_score ==
                             _fuzzy_match_score(fuzzy_candidates, documents[i].prompt_id)
                     IN [skip |-> Skipped(token_score, fuzzy_score),
                         score |-> ScoreMax(token_score, fuzzy_score),
                         document |-> documents[i]]]
        results == Sort(SelectSeq(scored, LAMBDA item : ~item.skip))
    IN IF tokens = <<>> THEN [raised |-> "ContentError", value |-> <<>>]
       ELSE [raised |-> "none", value |-> [i \in 1..Len(results) |-> results[i].document]]

_execute_search_always_ranked(documents, query, exact) == search_prompts(documents, query)

_execute_search(documents, query, exact) ==
    IF exact
    THEN LET normalized_query == Casefold(query)
         IN [raised |-> "none",
             value |-> SelectSeq(documents, LAMBDA document :
                          Contains(_build_prompt_haystack(document), normalized_query))]
    ELSE search_prompts(documents, query)

(* Inputs of the search *)

Prompt(id, title, tags, agents, body) ==
    [prompt_id |-> id, title |-> title, tags |-> tags, repos |-> <<>>, agents |-> agents,
     body |-> body]

PromptDocs ==
    { Prompt(<<"a", "b">>, <<>>, <<>>, <<>>, <<>>),
      Prompt(<<"a", "-", "b">>, <<>>, <<>>, <<>>, <<>>),
      Prompt(<<"a", "b", "c">>, <<>>, <<>>, <<>>, <<"a", " ", "a">>),
      Prompt(<<"b">>, <<"A">>, << <<"c">> >>, <<>>, <<>>),
      Prompt(<<"a">>, <<>>, <<>>, <<>>, <<>>),
      Prompt(<<"a">>, <<>>, <<>>, <<>>, <<"b">>) }

QueryAlphabet == {" ", "a", "b"}

Queries == SeqsUpTo(QueryAlphabet, MaxQueryLen) \cup {<<"A">>, <<"b", " ", "A">>}

InitSearch ==
    /\ InitCliOff
    /\ InitRefIdle
    /\ call \in {"search_prompts", "_execute_search"}
    /\ given \in [documents : SeqsUpTo(PromptDocs, MaxSearchDocs),
                  query : Queries,
                  exact : BOOLEAN]
    /\ call = "search_prompts" => ~given.exact
    /\ returned = NoCall

Finish(outcome) ==
    /\ returned = NoCall
    /\ returned' = outcome
    /\ UNCHANGED <<call, given>>
    /\ UNCHANGED cliVars
    /\ UNCHANGED refVars

SearchPrompts ==
    /\ call = "search_prompts"
    /\ Finish(search_prompts(given.documents, given.query))

ExecuteSearch ==
    /\ call = "_execute_search"
    /\ Finish(_execute_search(given.documents, given.query, given.exact))

NextSearch ==
    \/ SearchPrompts
    \/ ExecuteSearch

SpecSearch == InitSearch /\ [][NextSearch]_vars

----------------------------------------------------------------------------
(* Properties of the search *)

Blank(text) == \A i \in 1..Len(text) : text[i] \in Whitespace

Ranked == Returned /\ call = "search_prompts" /\ returned.raised = "none"

FuzzyCandidates(query) ==
    Range(_tokenize_query(query)) \cup (IF Blank(query) THEN {} ELSE {Casefold(Strip(query))})

TokenScore(document) ==
    _token_match_score(_tokenize_query(given.query), _build_prompt_haystack(document))

FuzzyScore(document) == _fuzzy_match_score(FuzzyCandidates(given.query), document.prompt_id)

CombinedScore(document) == ScoreMax(TokenScore(document), FuzzyScore(document))

ContainsIgnoringCase(text, part) ==
    \E i \in 1..(Len(text) + 1) :
       /\ i + Len(part) - 1 <= Len(text)
       /\ EqualIgnoringCase(SubSeq(text, i, i + Len(part) - 1), part)

(* C16: search_prompts fails when the query is empty after trimming, for     *)
(* every collection, the empty one included, and returns nothing then; for   *)
(* a query with a non-whitespace character it does not fail.                 *)
C16_BlankQueryFails ==
    (Returned /\ call = "search_prompts") =>
       IF Blank(given.query)
       THEN returned.raised = "ContentError" /\ returned.value = <<>>
       ELSE returned.raised = "none"

C16_Witness ==
    /\ Returned
    /\ call = "search_prompts"
    /\ given.documents = <<>>
    /\ given.query = <<" ", " ">>
    /\ returned.raised = "ContentError"

(* C17: the ranked search retains a document exactly when its token score is *)
(* above 0 or its fuzzy score is at least the threshold 0.72.                *)
C17_RetentionRule ==
    Ranked =>
       \A i \in 1..Len(given.documents) :
          Retained(given.documents[i]) <=>
             \/ ScoreLess(<<0, 1>>, TokenScore(given.documents[i]))
             \/ ~ScoreLess(FuzzyScore(given.documents[i]), <<72, 100>>)

(* "ab" finds a-b by its id alone and drops b, whose ratio is 2/3 *)
C17_Witness ==
    /\ Ranked
    /\ given.query = <<"a", "b">>
    /\ Len(given.documents) = 2
    /\ given.documents[1].prompt_id = <<"b">>
    /\ given.documents[2].prompt_id = <<"a", "-", "b">>
    /\ ScoreEq(TokenScore(given.documents[2]), <<0, 1>>)
    /\ returned.value = <<given.documents[2]>>

ClaimedTokenScore(document) ==
    LET words == Split(given.query)
        found == {i \in 1..Len(words) :
                     ContainsIgnoringCase(_build_prompt_haystack(document), words[i])}
    IN IF words # <<>> /\ found = 1..Len(words) THEN <<20 + Len(words), 10>>
       ELSE IF found # {} THEN <<10, 10>>
       ELSE <<0, 10>>

(* C18: the token score is 2.0 + 0.1 * (number of tokens) when every token   *)
(* is a substring of the haystack, 1.0 when some token is, 0 otherwise; the  *)
(* ranked result is in descending order of max(token score, fuzzy score),    *)
(* and documents of equal score are in ascending id order.                   *)
C18_RankingOrder ==
    Ranked =>
       /\ \A i \in 1..Len(given.documents) :
             ScoreEq(TokenScore(given.documents[i]), ClaimedTokenScore(given.documents[i]))
       /\ \A i, j \in 1..Len(returned.value) :
             i < j =>
                \/ ScoreLess(CombinedScore(returned.value[j]), CombinedScore(returned.value[i]))
                \/ /\ ScoreEq(CombinedScore(returned.value[i]), CombinedScore(returned.value[j]))
                   /\ ~StrLess(returned.value[j].prompt_id, returned.value[i].prompt_id)

(* two documents of equal score come back in id order, against input order *)
C18_Witness ==
    /\ Ranked
    /\ Len(returned.value) = 2
    /\ returned.value = <<given.documents[2], given.documents[1]>>
    /\ ScoreEq(CombinedScore(returned.value[1]), CombinedScore(returned.value[2]))
    /\ StrLess(returned.value[1].prompt_id, returned.value[2].prompt_id)

(* C19: in exact mode the search returns exactly the documents whose         *)
(* haystack contains the whole query as a case-insensitive substring, in     *)
(* input order: no scoring, no fuzzy matching, no sorting.                   *)
C19_ExactMode ==
    (Returned /\ call = "_execute_search" /\ given.exact) =>
       /\ returned.raised = "none"
       /\ IsSubsequence(returned.value, given.documents)
       /\ \A i \in 1..Len(returned.value) :
             ContainsIgnoringCase(_build_prompt_haystack(returned.value[i]), given.query)
       /\ Len(returned.value) =
             Cardinality({i \in 1..Len(given.documents) :
                 ContainsIgnoringCase(_build_prompt_haystack(given.documents[i]), given.query)})

(* a two-word query keeps the one document that holds it whole, where the   *)
(* ranked search also finds the other by its tokens and puts it first       *)
C19_Witness ==
    /\ Returned
    /\ call = "_execute_search"
    /\ given.exact
    /\ given.query = <<"b", " ", "A">>
    /\ Len(given.documents) = 2
    /\ returned.value = <<given.documents[1]>>
    /\ search_prompts(given.documents, given.query).value
          = <<given.documents[2], given.documents[1]>>

----------------------------------------------------------------------------
(* Frontmatter (content.py: parse_frontmatter).  The text is matched        *)
(* against ^---\s*$ (MULTILINE) character by character.  The header is a    *)
(* sequence of <<key, value>> pairs of plain scalars, written one           *)
(* "key: value" line each.                                                  *)

MaxBodyLen == 3

BOM == "BOM"

RegexSpace == {" ", "\t", "\n", "\r"}

RECURSIVE LStripChars(_, _)
LStripChars(s, chars) ==
    IF s # <<>> /\ Head(s) \in chars THEN LStripChars(Tail(s), chars) ELSE s

RECURSIVE RStripChars(_, _)
RStripChars(s, chars) ==
    IF s # <<>> /\ s[Len(s)] \in chars THEN RStripChars(SubSeq(s, 1, Len(s) - 1), chars) ELSE s

(* ^ and $ under re.MULTILINE, at the 1-based position p of text *)
LineStart(text, p) == p = 1 \/ text[p - 1] = "\n"

LineEnd(text, p) == p = Len(text) + 1 \/ text[p] = "\n"

(* where a match of _FRONTMATTER_BOUNDARY that starts at p ends (the first  *)
(* position after it), 0 when there is none; \s* is greedy                  *)
BoundaryEnd(text, p) ==
    LET ends == {q \in (p + 3)..(Len(text) + 1) :
                    /\ \A k \in (p + 3)..(q - 1) : text[k] \in RegexSpace
                    /\ LineEnd(text, q)}
    IN IF /\ LineStart(text, p)
          /\ p + 2 <= Len(text)
          /\ SubSeq(text, p, p + 2) = <<"-", "-", "-">>
          /\ ends # {}
       THEN CHOOSE q \in ends : \A r \in ends : r <= q
       ELSE 0

(* _FRONTMATTER_BOUNDARY.search(text, pos): the start of the first match at *)
(* or after pos, 0 when there is none                                       *)
BoundarySearch(text, pos) ==
    LET starts == {p \in pos..Len(text) : BoundaryEnd(text, p) # 0}
    IN IF starts = {} THEN 0 ELSE CHOOSE p \in starts : \A r \in starts : p <= r

(* text.split("\n") *)
RECURSIVE Lines(_)
Lines(text) ==
    LET breaks == {i \in 1..Len(text) : text[i] = "\n"}
    IN IF breaks = {} THEN <<text>>
       ELSE LET n == CHOOSE i \in breaks : \A j \in breaks : i <= j
            IN <<SubSeq(text, 1, n - 1)>> \o Lines(SubSeq(text, n + 1, Len(text)))

(* yaml.safe_dump of a mapping of plain scalars *)
RECURSIVE Dump(_)
Dump(header) ==
    IF header = <<>> THEN <<>>
    ELSE header[1][1] \o <<":", " ">> \o header[1][2] \o <<"\n">> \o Dump(Tail(header))

SafeDump(header) == IF header = <<>> THEN <<"{", "}", "\n">> ELSE Dump(header)

(* yaml.safe_load of a block: None for a block with no content; a mapping   *)
(* for {} and for "key: value" lines; a list for [] and for "- item" lines; *)
(* a scalar for one plain line (0 is the falsy one); a YAMLError for a line *)
(* that starts with ":" or "{" or for lines of different shapes             *)
SafeLoad(block) ==
    LET lines == SelectSeq(Lines(block), LAMBDA line : ~(\A i \in 1..Len(line) : line[i] \in RegexSpace))
        IsPair(line) == \E i \in 2..(Len(line) - 2) : line[i] = ":" /\ line[i + 1] = " "
        Pair(line) ==
            LET i == CHOOSE j \in 2..(Len(line) - 2) :
                        /\ line[j] = ":" /\ line[j + 1] = " "
                        /\ \A k \in 2..(j - 1) : ~(line[k] = ":" /\ line[k + 1] = " ")
            IN <<SubSeq(line, 1, i - 1), SubSeq(line, i + 2, Len(line))>>
        IsItem(line) == Len(line) >= 3 /\ line[1] = "-" /\ line[2] = " "
        IsBroken(line) == line[1] \in {":", "{"} /\ line # <<"{", "}">>
    IN IF lines = <<>> THEN [kind |-> "None", value |-> <<>>, falsy |-> TRUE]
       ELSE IF \E i \in 1..Len(lines) : IsBroken(lines[i])
            THEN [kind |-> "YAMLError", value |-> <<>>, falsy |-> FALSE]
       ELSE IF lines = << <<"{", "}">> >> THEN [kind |-> "dict", value |-> <<>>, falsy |-> TRUE]
       ELSE IF lines = << <<"[", "]">> >> THEN [kind |-> "list", value |-> <<>>, falsy |-> TRUE]
       ELSE IF \A i \in 1..Len(lines) : IsPair(lines[i])
            THEN [kind |-> "dict", value |-> [i \in 1..Len(lines) |-> Pair(lines[i])],
                  falsy |-> FALSE]
       ELSE IF \A i \in 1..Len(lines) : IsItem(lines[i])
            THEN [kind |-> "list",
                  value |-> [i \in 1..Len(lines) |-> SubSeq(lines[i], 3, Len(lines[i]))],
                  falsy |-> FALSE]
       ELSE IF Len(lines) = 1
            THEN [kind |-> "scalar", value |-> lines[1], falsy |-> lines[1] = <<"0">>]
       ELSE [kind |-> "YAMLError", value |-> <<>>, falsy |-> FALSE]

EmptyDict == [kind |-> "dict", value |-> <<>>, falsy |-> TRUE]

ContentError == [raised |-> "ContentError", value |-> <<>>]

parse_frontmatter_strips_all(raw_text) ==
    LET text == LStripChars(raw_text, {BOM})
        opening_end == BoundaryEnd(text, 1)
        closing_start == IF opening_end = 0 THEN 0 ELSE BoundarySearch(text, opening_end)
        closing_end == BoundaryEnd(text, closing_start)
        yaml_block == SubSeq(text, opening_end, closing_start - 1)
        loaded == SafeLoad(yaml_block)
        metadata == IF loaded.falsy THEN EmptyDict ELSE loaded
        body == SubSeq(text, closing_end, Len(text))
    IN IF opening_end = 0 THEN ContentError
       ELSE IF closing_start = 0 THEN ContentError
       ELSE IF loaded.kind = "YAMLError" THEN ContentError
       ELSE IF metadata.kind # "dict" THEN ContentError
       ELSE [raised |-> "none",
             value |-> [metadata |-> metadata.value,
                        body |-> RStripChars(LStripChars(body, RegexSpace), RegexSpace)]]

parse_frontmatter(raw_text) ==
    LET text == LStripChars(raw_text, {BOM})
        opening_end == BoundaryEnd(text, 1)
        closing_start == IF opening_end = 0 THEN 0 ELSE BoundarySearch(text, opening_end)
        closing_end == BoundaryEnd(text, closing_start)
        yaml_block == SubSeq(text, opening_end, closing_start - 1)
        loaded == SafeLoad(yaml_block)
        metadata == IF loaded.falsy THEN EmptyDict ELSE loaded
        body == SubSeq(text, closing_end, Len(text))
    IN IF opening_end = 0 THEN ContentError
       ELSE IF closing_start = 0 THEN ContentError
       ELSE IF loaded.kind = "YAMLError" THEN ContentError
       ELSE IF metadata.kind # "dict" THEN ContentError
       ELSE [raised |-> "none",
             value |-> [metadata |-> metadata.value,
                        body |-> RStripChars(LStripChars(body, {"\r", "\n"}), {"\r", "\n"})]]

(* the serialized form: opening --- line, header, closing --- line, body *)
Serialized(header, body) ==
    <<"-", "-", "-", "\n">> \o SafeDump(header) \o <<"-", "-", "-", "\n">> \o body

(* Inputs of the round trip *)

Headers ==
    { <<>>,
      << << <<"i", "d">>, <<"s">> >> >>,
      << << <<"i", "d">>, <<"s">> >>, << <<"t", "i", "t", "l", "e">>, <<"t", " ", "t">> >> >> }

BodyAlphabet == {"\n", "\r", " ", "-", "x"}

InitRoundTrip ==
    /\ InitCliOff
    /\ InitRefIdle
    /\ call = "serialize"
    /\ given \in [header : Headers, body : SeqsUpTo(BodyAlphabet, MaxBodyLen), raw_text : {<<>>}]
    /\ returned = NoCall

Serialize ==
    /\ call = "serialize"
    /\ call' = "parse_frontmatter"
    /\ given' = [given EXCEPT !.raw_text = Serialized(given.header, given.body)]
    /\ UNCHANGED returned
    /\ UNCHANGED cliVars
    /\ UNCHANGED refVars

ParseFrontmatter ==
    /\ call = "parse_frontmatter"
    /\ Finish(parse_frontmatter(given.raw_text))

NextRoundTrip ==
    \/ Serialize
    \/ ParseFrontmatter

SpecRoundTrip == InitRoundTrip /\ [][NextRoundTrip]_vars

----------------------------------------------------------------------------
(* Properties of the round trip *)

Parsed == Returned /\ call = "parse_frontmatter"

LineBreaks == {"\r", "\n"}

FirstLine(text) == Lines(text)[1]

(* no blank first line, no line break at either end *)
NoOuterBlankLines(body) ==
    \/ body = <<>>
    \/ /\ Head(body) \notin LineBreaks
       /\ body[Len(body)] \notin LineBreaks
       /\ \E i \in 1..Len(FirstLine(body)) : FirstLine(body)[i] \notin RegexSpace

(* C20 as stated: parsing the serialized form of a header and a body gives   *)
(* back an equivalent header mapping and the body byte for byte, for every   *)
(* header mapping and every body text.                                       *)
C20_RoundTripEveryBody ==
    Parsed =>
       /\ returned.raised = "none"
       /\ returned.value.metadata = given.header
       /\ returned.value.body = given.body

(* C20 amended: the header mapping always comes back; the body comes back    *)
(* byte for byte exactly when it is empty or has no blank first line and no  *)
(* line break at either end.                                                 *)
C20_RoundTripWithoutOuterBlankLines ==
    Parsed =>
       /\ returned.raised = "none"
       /\ returned.value.metadata = given.header
       /\ returned.value.body = given.body <=> NoOuterBlankLines(given.body)

C20_Witness ==
    /\ Parsed
    /\ Len(given.header) = 2
    /\ given.body = <<"x", "\n", " ">>
    /\ returned.value.body = given.body

----------------------------------------------------------------------------
(* parse_frontmatter on documents put together from a lead (byte-order mark *)
(* and blank lines), a first line, a header block, a closing line and a     *)
(* body.                                                                    *)

MaxLead == 1

BlankLines == {<<"\n">>, <<" ", "\n">>}

RECURSIVE Concat(_)
Concat(parts) == IF parts = <<>> THEN <<>> ELSE Head(parts) \o Concat(Tail(parts))

Leads ==
    {mark \o Concat(blanks) : mark \in {<<>>, <<BOM>>}, blanks \in SeqsUpTo(BlankLines, MaxLead)}

FirstLines == {<<"-", "-", "-", "\n">>, <<"-", "-", "-", " ", "\n">>, <<"x", "\n">>}

YamlBlocks ==
    { <<>>,
      <<"i", "d", ":", " ", "s", "\n">>,
      <<"{", "}", "\n">>,
      <<"[", "]", "\n">>,
      <<"-", " ", "a", "\n", "-", " ", "b", "\n">>,
      <<"0", "\n">>,
      <<"x", "\n">>,
      <<":", " ", "b", "a", "d", "\n">>,
      <<"{", "\n">> }

ClosingLines == {<<"-", "-", "-", "\n">>, <<"-", "-", "-">>, <<>>}

InitParse ==
    /\ InitCliOff
    /\ InitRefIdle
    /\ call = "parse_frontmatter"
    /\ \E lead \in Leads, first \in FirstLines, block \in YamlBlocks,
          closing \in ClosingLines, body \in {<<>>, <<"x">>} :
         given = [lead |-> lead, first |-> first, block |-> block, closing |-> closing,
                  body |-> body,
                  raw_text |-> lead \o first \o block \o closing \o body]
    /\ returned = NoCall

NextParse == ParseFrontmatter

SpecParse == InitParse /\ [][NextParse]_vars

----------------------------------------------------------------------------
(* Properties of the parser *)

IsDelimiterLine(line) == RStripChars(line, RegexSpace) = <<"-", "-", "-">>

IsBlankLine(line) == \A i \in 1..Len(line) : line[i] \in RegexSpace

(* the lines of the document once a leading byte-order mark is removed *)
DocLines == Lines(LStripChars(given.raw_text, {BOM}))

FirstNonBlank ==
    IF \A i \in 1..Len(DocLines) : IsBlankLine(DocLines[i]) THEN 0
    ELSE CHOOSE i \in 1..Len(DocLines) :
            /\ ~IsBlankLine(DocLines[i])
            /\ \A j \in 1..(i - 1) : IsBlankLine(DocLines[j])

OpensWithDelimiter == FirstNonBlank # 0 /\ IsDelimiterLine(DocLines[FirstNonBlank])

HasClosingDelimiter ==
    \E i \in (FirstNonBlank + 1)..Len(DocLines) : IsDelimiterLine(DocLines[i])

(* C21: parse_frontmatter accepts a document whenever, the byte-order mark   *)
(* apart, its first non-blank line is ---, a later standalone --- line       *)
(* exists and the block between them is a mapping, so also when blank lines  *)
(* precede the opening delimiter; it rejects a document whose first          *)
(* non-blank line is anything else.                                          *)
C21_AcceptsAfterBlankLines ==
    Parsed =>
       /\ (OpensWithDelimiter /\ HasClosingDelimiter /\ SafeLoad(given.block).kind = "dict")
             => returned.raised = "none"
       /\ ~OpensWithDelimiter => returned.raised = "ContentError"

(* C22: parse_frontmatter fails with a content error whenever the text       *)
(* between the delimiters is malformed or deserializes to a list, empty or   *)
(* not, or to a scalar; it returns no header mapping for such a document.    *)
C22_NonMappingRejected ==
    (Parsed /\ SafeLoad(given.block).kind \in {"YAMLError", "list", "scalar"}) =>
       returned.raised = "ContentError"

----------------------------------------------------------------------------
(* Directory scan (content.py: scan_prompts_dir, _scan_directory,           *)
(* _list_files, _load_document).  A path is the sequence of its parts below *)
(* the prompts directory; the tree maps the paths that exist to a file with *)
(* its text or to a directory.                                              *)

MaxFiles == 3

_PROMPT_SUFFIXES == {<<".", "m", "d">>, <<".", "m", "a", "r", "k", "d", "o", "w", "n">>}

Lower1(c) ==
    CASE c = "D" -> "d"
      [] c = "M" -> "m"
      [] OTHER -> c

Lower(s) == [i \in 1..Len(s) |-> Lower1(s[i])]

(* Path.suffix: from the last dot of the name, unless it leads or ends it *)
Suffix(path) ==
    LET name == path[Len(path)]
        dots == {i \in 2..(Len(name) - 1) : name[i] = "."}
    IN IF dots = {} THEN <<>>
       ELSE SubSeq(name, CHOOSE i \in dots : \A j \in dots : j <= i, Len(name))

(* order of Path objects: part by part *)
RECURSIVE PathLess(_, _)
PathLess(p, q) ==
    IF q = <<>> THEN FALSE
    ELSE IF p = <<>> THEN TRUE
    ELSE IF Head(p) = Head(q) THEN PathLess(Tail(p), Tail(q))
    ELSE StrLess(Head(p), Head(q))

(* sorted(...) of a set of paths *)
RECURSIVE SortedPaths(_)
SortedPaths(paths) ==
    IF paths = {} THEN <<>>
    ELSE LET first == CHOOSE p \in paths : \A q \in paths \ {p} : PathLess(p, q)
         IN <<first>> \o SortedPaths(paths \ {first})

_list_files(tree, allowed_suffixes) ==
    LET allowed == {Lower(suffix) : suffix \in allowed_suffixes}
    IN SelectSeq(SortedPaths(DOMAIN tree),
                 LAMBDA candidate : tree[candidate].is_file /\ Lower(Suffix(candidate)) \in allowed)

IdFirstChars == {"a", "b", "c", "s", "t", "x", "0", "1"}

IdChars == IdFirstChars \cup {"-", "_"}

ValueError == [raised |-> "ValueError", value |-> <<>>]

validate_prompt_id(value) ==
    LET normalized == Strip(value)
    IN IF normalized = <<>> THEN ValueError
       ELSE IF ~(Head(normalized) \in IdFirstChars
                 /\ \A i \in 2..Len(normalized) : normalized[i] \in IdChars)
            THEN ValueError
       ELSE [raised |-> "none", value |-> normalized]

normalize_title(value) == Strip(value)

Lookup(payload, key) ==
    LET hits == {i \in 1..Len(payload) : payload[i][1] = key}
    IN IF hits = {} THEN [found |-> FALSE, value |-> <<>>]
       ELSE [found |-> TRUE, value |-> payload[CHOOSE i \in hits : \A j \in hits : j <= i][2]]

(* model_cls applied to the metadata payload, for a payload of string values *)
PromptMetadata(payload) ==
    LET id == Lookup(payload, <<"i", "d">>)
        title == Lookup(payload, <<"t", "i", "t", "l", "e">>)
        checked == validate_prompt_id(id.value)
    IN IF ~id.found THEN [raised |-> "ValidationError", value |-> <<>>]
       ELSE IF checked.raised # "none" THEN [raised |-> "ValidationError", value |-> <<>>]
       ELSE [raised |-> "none",
             value |-> [prompt_id |-> checked.value, title |-> normalize_title(title.value),
                        tags |-> <<>>, repos |-> <<>>, agents |-> <<>>]]

load_prompt(tree, path) ==
    LET parsed == parse_frontmatter(tree[path].text)
        metadata == PromptMetadata(parsed.value.metadata)
    IN IF ~tree[path].is_file THEN [raised |-> "ContentError", value |-> <<>>, at |-> path]
       ELSE IF parsed.raised # "none" THEN [raised |-> "ContentError", value |-> <<>>, at |-> path]
       ELSE IF metadata.raised # "none"
            THEN [raised |-> "ContentError", value |-> <<>>, at |-> path]
       ELSE [raised |-> "none",
             value |-> [metadata |-> metadata.value, body |-> parsed.value.body, path |-> path],
             at |-> <<>>]

_scan_directory_skips_failures(root, tree) ==
    LET files == _list_files(tree, _PROMPT_SUFFIXES)
        loaded == [i \in 1..Len(files) |-> load_prompt(tree, files[i])]
        good == SelectSeq(loaded, LAMBDA item : item.raised = "none")
    IN IF root # "dir" THEN [raised |-> "ContentError", value |-> <<>>, at |-> <<>>]
       ELSE [raised |-> "none", value |-> [i \in 1..Len(good) |-> good[i].value], at |-> <<>>]

_scan_directory(root, tree) ==
    LET Collect(loaded) ==
           LET failed == {i \in 1..Len(loaded) : loaded[i].raised # "none"}
           IN IF failed # {} THEN loaded[CHOOSE i \in failed : \A j \in failed : i <= j]
              ELSE [raised |-> "none", value |-> [i \in 1..Len(loaded) |-> loaded[i].value],
                    at |-> <<>>]
    IN IF root # "dir" THEN [raised |-> "ContentError", value |-> <<>>, at |-> <<>>]
       ELSE CHOOSE outcome \in
               {Collect(loaded) :
                  loaded \in {[i \in 1..Len(files) |-> load_prompt(tree, files[i])] :
                                 files \in {_list_files(tree, _PROMPT_SUFFIXES)}}} : TRUE

(* sorted(documents, key=prompt_id): stable *)
RECURSIVE InsertById(_, _)
InsertById(sorted, document) ==
    IF sorted = <<>> THEN <<document>>
    ELSE IF StrLess(document.metadata.prompt_id, Head(sorted).metadata.prompt_id)
         THEN <<document>> \o sorted
    ELSE <<Head(sorted)>> \o InsertById(Tail(sorted), document)

RECURSIVE SortedById(_)
SortedById(documents) ==
    IF documents = <<>> THEN <<>>
    ELSE InsertById(SortedById(SubSeq(documents, 1, Len(documents) - 1)),
                    documents[Len(documents)])

scan_prompts_dir_path_order(root, tree) == _scan_directory(root, tree)

scan_prompts_dir(root, tree) ==
    LET Ordered(documents) ==
           IF documents.raised # "none" THEN documents
           ELSE [documents EXCEPT !.value = SortedById(documents.value)]
    IN CHOOSE outcome \in {Ordered(documents) : documents \in {_scan_directory(root, tree)}} : TRUE

(* Inputs of the scan *)

ScanPaths ==
    { << <<"b", ".", "m", "d">> >>,
      << <<"a", ".", "M", "D">> >>,
      << <<"s">>, <<"a", ".", "m", "d">> >>,
      << <<"c", ".", "t", "x", "t">> >> }

FileTexts ==
    { <<"-", "-", "-", "\n", "i", "d", ":", " ", "a", "\n", "-", "-", "-", "\n", "x">>,
      <<"-", "-", "-", "\n", "i", "d", ":", " ", "b", "\n", "-", "-", "-", "\n">>,
      <<"-", "-", "-", "\n", "t", "i", "t", "l", "e", ":", " ", "t", "\n", "-", "-", "-", "\n">>,
      <<"x">> }

TreeEntries ==
    {[is_file |-> TRUE, text |-> text] : text \in FileTexts}
       \cup {[is_file |-> FALSE, text |-> <<>>]}

Trees ==
    UNION {[paths -> TreeEntries] : paths \in {P \in SUBSET ScanPaths : Cardinality(P) <= MaxFiles}}

EmptyTree == [path \in {} |-> [is_file |-> FALSE, text |-> <<>>]]

InitScan ==
    /\ InitCliOff
    /\ InitRefIdle
    /\ call = "scan_prompts_dir"
    /\ \/ \E tree \in Trees : given = [root |-> "dir", tree |-> tree]
       \/ \E root \in {"missing", "file"} : given = [root |-> root, tree |-> EmptyTree]
    /\ returned = NoCall

ScanPromptsDir ==
    /\ call = "scan_prompts_dir"
    /\ Finish(scan_prompts_dir(given.root, given.tree))

NextScan == ScanPromptsDir

SpecScan == InitScan /\ [][NextScan]_vars

----------------------------------------------------------------------------
(* Properties of the scan *)

Scanned == Returned /\ call = "scan_prompts_dir" /\ given.root = "dir"

Eligible ==
    {path \in DOMAIN given.tree :
        /\ given.tree[path].is_file
        /\ Lower(Suffix(path)) \in _PROMPT_SUFFIXES}

Failing == {path \in Eligible : load_prompt(given.tree, path).raised # "none"}

(* C23: a scan is all-or-nothing: when an eligible file (.md or .markdown,   *)
(* at any depth) fails to parse or to validate, the scan raises the error of *)
(* a failing file and returns no document; it returns no partial list and    *)
(* skips no failing file.                                                    *)
C23_ScanAllOrNothing ==
    Scanned =>
       IF Failing # {}
       THEN /\ returned.raised = "ContentError"
            /\ returned.value = <<>>
            /\ returned.at \in Failing
       ELSE returned.raised = "none"

(* a nested file without an id fails the scan of three files *)
C23_Witness ==
    /\ Scanned
    /\ Cardinality(Eligible) = 3
    /\ Failing = {<< <<"s">>, <<"a", ".", "m", "d">> >>}
    /\ returned.raised = "ContentError"
    /\ returned.value = <<>>

(* C24: a successful scan returns one document per eligible file under the   *)
(* root, and the list is in ascending order of id, whatever the file names   *)
(* and the layout are.                                                       *)
C24_OnePerFileSortedById ==
    (Scanned /\ returned.raised = "none") =>
       /\ Len(returned.value) = Cardinality(Eligible)
       /\ \A path \in Eligible :
             Cardinality({i \in 1..Len(returned.value) : returned.value[i].path = path}) = 1
       /\ \A i, j \in 1..Len(returned.value) :
             i < j => ~StrLess(returned.value[j].metadata.prompt_id,
                               returned.value[i].metadata.prompt_id)

(* a.MD holds id b and s/a.md holds id a: id order is not path order *)
C24_Witness ==
    /\ Scanned
    /\ returned.raised = "none"
    /\ Len(returned.value) = 2
    /\ returned.value[1].path = << <<"s">>, <<"a", ".", "m", "d">> >>
    /\ returned.value[2].path = << <<"a", ".", "M", "D">> >>
    /\ StrLess(returned.value[1].metadata.prompt_id, returned.value[2].metadata.prompt_id)
    /\ Cardinality(DOMAIN given.tree) = 3

----------------------------------------------------------------------------
(* Metadata normalization (models.py: _normalize_list, validate_version,    *)
(* validate_prompt_id)                                                      *)

MaxListLen == 3
MaxVersionLen == 5
MaxIdLen == 3

Fingerprint_exact(trimmed) == trimmed

(* fingerprint = trimmed.casefold() *)
Fingerprint(trimmed) == Casefold(trimmed)

(* the loop of _normalize_list from `values` on, with `seen` and            *)
(* `normalized` as they are at that point                                   *)
RECURSIVE NormalizeFrom(_, _, _)
NormalizeFrom(values, seen, normalized) ==
    IF values = <<>> THEN normalized
    ELSE LET trimmed == Strip(Head(values))
             fingerprint == Fingerprint(trimmed)
         IN IF trimmed = <<>> THEN NormalizeFrom(Tail(values), seen, normalized)
            ELSE IF fingerprint \in seen THEN NormalizeFrom(Tail(values), seen, normalized)
            ELSE NormalizeFrom(Tail(values), seen \cup {fingerprint},
                               Append(normalized, trimmed))

_normalize_list_newest_first(values) == Reversed(NormalizeFrom(values, {}, <<>>))

_normalize_list(values) == NormalizeFrom(values, {}, <<>>)

Digits == {"0", "1"}

(* value.split(".") *)
RECURSIVE Fields(_)
Fields(text) ==
    LET dots == {i \in 1..Len(text) : text[i] = "."}
    IN IF dots = {} THEN <<text>>
       ELSE LET n == CHOOSE i \in dots : \A j \in dots : i <= j
            IN <<SubSeq(text, 1, n - 1)>> \o Fields(SubSeq(text, n + 1, Len(text)))

(* 0|[1-9]\d* *)
IsNumber(part) ==
    /\ part # <<>>
    /\ \A i \in 1..Len(part) : part[i] \in Digits
    /\ Len(part) = 1 \/ part[1] # "0"

(* _SEMVER_PATTERN.fullmatch *)
IsSemver(text) ==
    /\ Len(Fields(text)) = 3
    /\ \A i \in 1..3 : IsNumber(Fields(text)[i])

validate_version(value) ==
    LET normalized == Strip(value)
    IN IF normalized = <<>> THEN ValueError
       ELSE IF ~IsSemver(normalized) THEN ValueError
       ELSE [raised |-> "none", value |-> normalized]

(* Inputs of the normalization *)

ListEntries == {<<" ">>, <<"a">>, <<"A">>, <<" ", "a">>, <<"b", " ">>}

VersionAlphabet == {"0", "1", ".", " "}

VersionInputs ==
    SeqsUpTo(VersionAlphabet, MaxVersionLen)
       \cup UNION {Padded(v) : v \in {<<"1", ".", "0", ".", "0">>,
                                      <<"1", "0", ".", "0", ".", "1">>,
                                      <<"0", "1", ".", "0", ".", "0">>}}

IdAlphabet == {"a", "A", "-", "0", " "}

InitMetadata ==
    /\ InitCliOff
    /\ InitRefIdle
    /\ \/ call = "_normalize_list"
          /\ \E values \in SeqsUpTo(ListEntries, MaxListLen) : given = [value |-> values]
       \/ call = "validate_version"
          /\ \E value \in VersionInputs : given = [value |-> value]
       \/ call = "validate_prompt_id"
          /\ \E value \in SeqsUpTo(IdAlphabet, MaxIdLen) : given = [value |-> value]
    /\ returned = NoCall

NormalizeList ==
    /\ call = "_normalize_list"
    /\ Return(_normalize_list(given.value))

ValidateVersion ==
    /\ call = "validate_version"
    /\ Finish(validate_version(given.value))

ValidatePromptId ==
    /\ call = "validate_prompt_id"
    /\ Finish(validate_prompt_id(given.value))

NextMetadata ==
    \/ NormalizeList
    \/ ValidateVersion
    \/ ValidatePromptId

SpecMetadata == InitMetadata /\ [][NextMetadata]_vars

----------------------------------------------------------------------------
(* Properties of the normalization *)

Normalized == Returned /\ returned.raised = "none"

(* C25: normalization is idempotent: normalizing a normalized tags, repos or *)
(* agents list, and validating a validated version or id, gives the          *)
(* identical value.                                                          *)
C25_NormalizationIdempotent ==
    Normalized =>
       CASE call = "_normalize_list" -> _normalize_list(returned.value) = returned.value
         [] call = "validate_version" -> validate_version(returned.value) = returned
         [] call = "validate_prompt_id" -> validate_prompt_id(returned.value) = returned
         [] OTHER -> TRUE

(* a padded version comes back trimmed, and validates to itself *)
C25_Witness ==
    /\ Normalized
    /\ call = "validate_version"
    /\ given.value = <<" ">> \o returned.value \o <<" ">>
    /\ validate_version(returned.value) = returned

(* the first index of the input whose trimmed entry equals `wanted`        *)
(* ignoring case, 0 when there is none                                      *)
FirstOccurrence(values, wanted) ==
    LET hits == {i \in 1..Len(values) : EqualIgnoringCase(Strip(values[i]), Strip(wanted))}
    IN IF hits = {} THEN 0 ELSE CHOOSE i \in hits : \A j \in hits : i <= j

(* C26: a normalized list holds no blank entry and no two entries equal      *)
(* ignoring case; for each case-folded value it keeps the trimmed casing of  *)
(* the first occurrence, and the kept entries are in first-occurrence order. *)
C26_NormalizedList ==
    (Normalized /\ call = "_normalize_list") =>
       LET out == returned.value
       IN /\ \A k \in 1..Len(out) : ~Blank(out[k])
          /\ \A k, l \in 1..Len(out) : k # l => ~EqualIgnoringCase(out[k], out[l])
          /\ \A i \in 1..Len(given.value) :
                ~Blank(given.value[i]) => FirstOccurrence(out, given.value[i]) # 0
          /\ \A k \in 1..Len(out) :
                /\ FirstOccurrence(given.value, out[k]) # 0
                /\ out[k] = Strip(given.value[FirstOccurrence(given.value, out[k])])
          /\ \A k, l \in 1..Len(out) :
                k < l => FirstOccurrence(given.value, out[k]) < FirstOccurrence(given.value, out[l])

C26_Witness ==
    /\ Normalized
    /\ call = "_normalize_list"
    /\ given.value = << <<"b", " ">>, <<"A">>, <<" ", "a">> >>
    /\ returned.value = << <<"b">>, <<"A">> >>

----------------------------------------------------------------------------
(* Properties of the sync pass, continued *)

(* C27: a sync pass on a remote reference that found no cache directory and *)
(* whose clone succeeded goes on, in the same pass, with fetch, reset,      *)
(* clean, pull on the fresh clone and only then returns the path; when one  *)
(* of these fails, the pass returns the path with a warning and raises no   *)
(* StoreSyncError.                                                          *)
C27_FreshCloneIsUpdated ==
    (RemotePass /\ entry.disk.cache = "absent" /\ FailedOp # "clone")
        => /\ IsPrefix(PassLog, <<"clone">> \o UPDATE_OPS)
           /\ pc \in UpdateOps => disk.cache = "valid"
           /\ (pc = "sync_return" /\ err.exc = "none")
                 => /\ PassLog = <<"clone">> \o UPDATE_OPS
                    /\ result = "path"
                    /\ ~warned
           /\ (pc = "sync_return" /\ err.exc # "none")
                 => /\ FailedOp \in UpdateOps
                    /\ result = "path"
                    /\ warned
                    /\ disk.cache = "valid"

C27_Witness ==
    /\ pc = "sync_return" /\ RemotePass /\ entry.disk.cache = "absent"
    /\ PassLog = <<"clone", "fetch", "reset">>
    /\ FailedOp = "reset" /\ err.exc = "GitCommandError"
    /\ result = "path" /\ warned

(* C28: in an invocation without a forced refresh, a sync pass on a remote  *)
(* reference that found a valid repository in the cache directory raises no *)
(* StoreSyncError and never removes the cache directory, whichever of       *)
(* fetch, reset, clean, pull fails: the cache is a valid repository at      *)
(* every step of the pass and after it.                                     *)
C28_UsableCacheStaysUsable ==
    (RemotePass /\ ~state.force_sync /\ entry.disk.cache = "valid")
        => /\ result # "StoreSyncError"
           /\ Count(log, "rmtree_cache") = 0
           /\ Count(log, "clone") = 0
           /\ disk.cache = "valid"

C28_Witness ==
    /\ pc = "sync_return" /\ RemotePass /\ ~state.force_sync
    /\ entry.disk.cache = "valid"
    /\ err.exc = "OSError" /\ FailedOp = "fetch"
    /\ result = "path" /\ warned /\ disk.cache = "valid"

----------------------------------------------------------------------------
(* Properties of the search, continued *)

MatchesToken(document) == ScoreLess(<<0, 1>>, TokenScore(document))

(* C29: in every result of search_prompts, each document that matches a      *)
(* query token comes before each document retained through the fuzzy id      *)
(* match alone: the score of the latter is strictly below 1.0, the token     *)
(* score of the former is at least 1.0.                                      *)
C29_TokenMatchesFirst ==
    Ranked =>
       /\ \A i \in 1..Len(given.documents) :
             IF MatchesToken(given.documents[i])
             THEN ~ScoreLess(TokenScore(given.documents[i]), <<1, 1>>)
             ELSE ScoreLess(CombinedScore(given.documents[i]), <<1, 1>>)
       /\ \A i, j \in 1..Len(returned.value) :
             (MatchesToken(returned.value[i]) /\ ~MatchesToken(returned.value[j])) => i < j

(* "ab" finds a-b by its id alone and abc by its token: abc comes first,     *)
(* against input order and against id order                                  *)
C29_Witness ==
    /\ Ranked
    /\ given.query = <<"a", "b">>
    /\ Len(given.documents) = 2
    /\ given.documents[1].prompt_id = <<"a", "-", "b">>
    /\ given.documents[2].prompt_id = <<"a", "b", "c">>
    /\ ~MatchesToken(given.documents[1])
    /\ MatchesToken(given.documents[2])
    /\ returned.value = <<given.documents[2], given.documents[1]>>

(* every order in which the same documents can be supplied *)
Orderings(documents) ==
    LET n == Len(documents)
        orders == {f \in [1..n -> 1..n] : \A i, j \in 1..n : f[i] = f[j] => i = j}
    IN {[i \in 1..n |-> documents[f[i]]] : f \in orders}

(* C30 (as claimed): the result of search_prompts is the same for every      *)
(* order in which the same documents are supplied, also when two of them     *)
(* carry the same id.                                                        *)
C30_OrderIndependent ==
    Ranked =>
       \A permuted \in Orderings(given.documents) :
          search_prompts(permuted, given.query) = returned

====
